---- MODULE Spec2Model ----
(***************************************************************************)
(* The job-search / industry-trend pipeline of JobHuntingAgent (src/app.py *)
(* and its LocalAI twin src/job-hunt.py) together with the part of main()  *)
(* that calls it.  Strings are sequences of one-character strings, so that *)
(* str.lower, str.replace, concatenation and the "in" substring test are   *)
(* computed, not assumed.                                                  *)
(***************************************************************************)
EXTENDS Integers, Sequences, FiniteSets, TLC

VARIABLES
  variant,        \* which program runs: "app" (src/app.py) or "jobhunt" (src/job-hunt.py)
  pc,             \* position of the running method, or "idle" when main() waits for the button
  flow,           \* the method being executed: "find_jobs", "get_industry_trends" or "none"
  job_title,      \* main()'s form inputs of the current run
  location,
  job_category,
  urls,           \* the urls list the method built
  raw_response,   \* what firecrawl.extract returned (NoResponse before it returns)
  records,        \* jobs / industries: the record sequence derived from raw_response
  prompt,         \* the argument of agent.run (NoPrompt when it was not called)
  result,         \* the method's return value (NoResult while it runs)
  escaped,        \* TRUE when an exception left the method instead of a return value
  excDesc,        \* str(e) of the exception raised in this invocation (NoExc when none)
  extractCalls,   \* number of firecrawl.extract calls of this invocation
  synthCalls,     \* number of agent.run calls of this invocation
  extractOutcome, \* "none", "pending", "returned" or "raised"
  synthOutcome,   \* "none", "pending", "returned" or "raised"
  analysis,       \* what agent.run returned, in a one-element sequence (empty before)
  job_results,    \* main()'s local job_results (NoResult before find_jobs returned)
  shown,          \* what main() has put on the page in this run, in order
  extracted,      \* the response as firecrawl.extract handed it over (one-element sequence)
  env,            \* os.getenv: the API keys of the process environment
  session,        \* st.session_state
  first_agent,    \* the first JobHuntingAgent constructed in this session (NoAgent before)
  call_agent      \* the JobHuntingAgent whose clients make this invocation's remote calls

vars == <<variant, pc, flow, job_title, location, job_category, urls, raw_response,
          records, prompt, result, escaped, excDesc, extractCalls, synthCalls,
          extractOutcome, synthOutcome, analysis, job_results, shown, extracted, env,
          session, first_agent, call_agent>>

\* what a method invocation leaves alone
sessionVars == <<env, session, first_agent>>

----------------------------------------------------------------------------
(* Bounds *)

\* longest list the extraction service returns under one payload key
MaxRecords == 2

----------------------------------------------------------------------------
(* Python string operations on sequences of characters *)

UpperLetters == <<"A","B","C","D","E","F","G","H","I","J","K","L","M",
                  "N","O","P","Q","R","S","T","U","V","W","X","Y","Z">>

LowerLetters == <<"a","b","c","d","e","f","g","h","i","j","k","l","m",
                  "n","o","p","q","r","s","t","u","v","w","x","y","z">>

\* str.lower on one character
LowerChar(c) ==
  IF \E i \in 1..Len(UpperLetters) : UpperLetters[i] = c
  THEN LowerLetters[CHOOSE i \in 1..Len(UpperLetters) : UpperLetters[i] = c]
  ELSE c

\* s.lower()
Lower(s) == [i \in 1..Len(s) |-> LowerChar(s[i])]

\* s.replace(" ", "-")
Hyphenate(s) == [i \in 1..Len(s) |-> IF s[i] = " " THEN "-" ELSE s[i]]

\* sub in s
Contains(s, sub) ==
  \E k \in 0..(Len(s) - Len(sub)) : \A i \in 1..Len(sub) : s[k + i] = sub[i]

Digits == <<"0","1","2","3","4","5","6","7","8","9">>

\* str(n) for a natural number n, as the f-string {len(job_category)} renders it
RECURSIVE DecStr(_)
DecStr(n) == IF n < 10 THEN <<Digits[n + 1]>> ELSE DecStr(n \div 10) \o <<Digits[(n % 10) + 1]>>

----------------------------------------------------------------------------
(* String literals of the source *)

\* "https://www.naukri.com/"
NaukriBase ==
  <<"h","t","t","p","s",":","/","/","w","w","w",".","n","a","u","k","r","i",".","c","o","m","/">>

\* "-jobs-in-"
JobsIn ==
  <<"-","j","o","b","s","-","i","n","-">>

\* "https://www.indeed.com/jobs?q="
IndeedBase ==
  <<"h","t","t","p","s",":","/","/","w","w","w",".","i","n","d","e","e","d",".","c","o","m","/",
    "j","o","b","s","?","q","=">>

\* "&l="
IndeedLoc ==
  <<"&","l","=">>

\* "https://www.monster.com/jobs/search/?q="
MonsterBase ==
  <<"h","t","t","p","s",":","/","/","w","w","w",".","m","o","n","s","t","e","r",".","c","o","m",
    "/","j","o","b","s","/","s","e","a","r","c","h","/","?","q","=">>

\* "&where="
MonsterWhere ==
  <<"&","w","h","e","r","e","=">>

\* "https://www.payscale.com/research/US/Job="
PayscaleBase ==
  <<"h","t","t","p","s",":","/","/","w","w","w",".","p","a","y","s","c","a","l","e",".","c","o",
    "m","/","r","e","s","e","a","r","c","h","/","U","S","/","J","o","b","=">>

\* "/Salary"
PayscaleTail ==
  <<"/","S","a","l","a","r","y">>

\* "https://www.glassdoor.com/Salaries/"
GlassdoorBase ==
  <<"h","t","t","p","s",":","/","/","w","w","w",".","g","l","a","s","s","d","o","o","r",".","c",
    "o","m","/","S","a","l","a","r","i","e","s","/">>

\* "-salary-SRCH_KO0,"
GlassdoorMid ==
  <<"-","s","a","l","a","r","y","-","S","R","C","H","_","K","O","0",",">>

\* ".htm"
GlassdoorTail ==
  <<".","h","t","m">>

\* "No job listing found matching your criteria. Try adjusting your search parameters or try different job sites."
NoJobsMessage ==
  <<"N","o"," ","j","o","b"," ","l","i","s","t","i","n","g"," ","f","o","u","n","d"," ","m","a",
    "t","c","h","i","n","g"," ","y","o","u","r"," ","c","r","i","t","e","r","i","a","."," ","T",
    "r","y"," ","a","d","j","u","s","t","i","n","g"," ","y","o","u","r"," ","s","e","a","r","c",
    "h"," ","p","a","r","a","m","e","t","e","r","s"," ","o","r"," ","t","r","y"," ","d","i","f",
    "f","e","r","e","n","t"," ","j","o","b"," ","s","i","t","e","s",".">>

\* "No industry trends data available for "
NoTrendsEmptyHead ==
  <<"N","o"," ","i","n","d","u","s","t","r","y"," ","t","r","e","n","d","s"," ","d","a","t","a",
    " ","a","v","a","i","l","a","b","l","e"," ","f","o","r"," ">>

\* ".Try a different industry category."
NoTrendsEmptyTail ==
  <<".","T","r","y"," ","a"," ","d","i","f","f","e","r","e","n","t"," ","i","n","d","u","s","t",
    "r","y"," ","c","a","t","e","g","o","r","y",".">>

\* "No industry trend data available for "
NoTrendsFailedHead ==
  <<"N","o"," ","i","n","d","u","s","t","r","y"," ","t","r","e","n","d"," ","d","a","t","a"," ",
    "a","v","a","i","l","a","b","l","e"," ","f","o","r"," ">>

\* ".Try different industry category."
NoTrendsFailedTail ==
  <<".","T","r","y"," ","d","i","f","f","e","r","e","n","t"," ","i","n","d","u","s","t","r","y",
    " ","c","a","t","e","g","o","r","y",".">>

\* "An error occured while searching for jobs: "
JobsErrorHead ==
  <<"A","n"," ","e","r","r","o","r"," ","o","c","c","u","r","e","d"," ","w","h","i","l","e"," ",
    "s","e","a","r","c","h","i","n","g"," ","f","o","r"," ","j","o","b","s",":"," ">>

\* "\n\nPlease try again with different search parameters or check if the job sites are supported by Firecrawl."
JobsErrorTail ==
  <<"\n","\n","P","l","e","a","s","e"," ","t","r","y"," ","a","g","a","i","n"," ","w","i","t",
    "h"," ","d","i","f","f","e","r","e","n","t"," ","s","e","a","r","c","h"," ","p","a","r","a",
    "m","e","t","e","r","s"," ","o","r"," ","c","h","e","c","k"," ","i","f"," ","t","h","e"," ",
    "j","o","b"," ","s","i","t","e","s"," ","a","r","e"," ","s","u","p","p","o","r","t","e","d",
    " ","b","y"," ","F","i","r","e","c","r","a","w","l",".">>

\* "An error occurerd while fetching industry trends: "
TrendsErrorHead ==
  <<"A","n"," ","e","r","r","o","r"," ","o","c","c","u","r","e","r","d"," ","w","h","i","l","e",
    " ","f","e","t","c","h","i","n","g"," ","i","n","d","u","s","t","r","y"," ","t","r","e","n",
    "d","s",":"," ">>

\* "\n\nPlease try again with a different industry category or check if the sites are supported by Firecrawl. "
TrendsErrorTail ==
  <<"\n","\n","P","l","e","a","s","e"," ","t","r","y"," ","a","g","a","i","n"," ","w","i","t",
    "h"," ","a"," ","d","i","f","f","e","r","e","n","t"," ","i","n","d","u","s","t","r","y"," ",
    "c","a","t","e","g","o","r","y"," ","o","r"," ","c","h","e","c","k"," ","i","f"," ","t","h",
    "e"," ","s","i","t","e","s"," ","a","r","e"," ","s","u","p","p","o","r","t","e","d"," ","b",
    "y"," ","F","i","r","e","c","r","a","w","l","."," ">>

\* "error"
ErrorWord ==
  <<"e","r","r","o","r">>

\* "Data Scientist"
DataScientist ==
  <<"D","a","t","a"," ","S","c","i","e","n","t","i","s","t">>

\* "QA Lead"
QaLead ==
  <<"Q","A"," ","L","e","a","d">>

\* "New York"
NewYork ==
  <<"N","e","w"," ","Y","o","r","k">>

\* "remote"
Remote ==
  <<"r","e","m","o","t","e">>

\* "An error occurred"
AnErrorOccurred ==
  <<"A","n"," ","e","r","r","o","r"," ","o","c","c","u","r","r","e","d">>

\* "Marketing"
Marketing ==
  <<"M","a","r","k","e","t","i","n","g">>

\* "Data Science"
DataScience ==
  <<"D","a","t","a"," ","S","c","i","e","n","c","e">>

\* "'NoneType' object has no attribute 'get'"
NoneTypeGetError ==
  <<"'","N","o","n","e","T","y","p","e","'"," ","o","b","j","e","c","t"," ","h","a","s"," ","n",
    "o"," ","a","t","t","r","i","b","u","t","e"," ","'","g","e","t","'">>

\* "Request timed out"
TimeoutError ==
  <<"R","e","q","u","e","s","t"," ","t","i","m","e","d"," ","o","u","t">>

\* "Invalid API key"
ApiKeyError ==
  <<"I","n","v","a","l","i","d"," ","A","P","I"," ","k","e","y">>

\* "'job_postings'"
KeyErrorText ==
  <<"'","j","o","b","_","p","o","s","t","i","n","g","s","'">>

\* "website is no longer supported"
WebsiteUnsupported ==
  <<"w","e","b","s","i","t","e"," ","i","s"," ","n","o"," ","l","o","n","g","e","r"," ","s","u",
    "p","p","o","r","t","e","d">>

\* "api key"
ApiKeyWord ==
  <<"a","p","i"," ","k","e","y">>

\* "This Website is no longer supported"
WebsiteError ==
  <<"T","h","i","s"," ","W","e","b","s","i","t","e"," ","i","s"," ","n","o"," ","l","o","n","g",
    "e","r"," ","s","u","p","p","o","r","t","e","d">>

\* "Top 3 jobs"
ReportA ==
  <<"T","o","p"," ","3"," ","j","o","b","s">>

\* "0 errors"
ReportB ==
  <<"0"," ","e","r","r","o","r","s">>

----------------------------------------------------------------------------
(* Inputs *)

\* what the user can type in the "Job Title" box (the empty box included)
JobTitles == {DataScientist, QaLead, <<>>}

\* what the user can type in the "Location" box (the empty box included)
Locations == {NewYork, Remote, <<>>}

\* two of the options of the "Industry/Job Category" selectbox
JobCategories == {Marketing, DataScience}

\* str(e) of the exceptions a remote call raises
ExcDescriptions == {TimeoutError, ApiKeyError, WebsiteError}

\* analysis.content values the language model returns
Contents == {ReportA, ReportB}

Variants == {"app", "jobhunt"}

----------------------------------------------------------------------------
(* Data the extraction service returns *)

FullJob ==
  [region |-> "north", role |-> "analyst", job_title |-> "data analyst",
   experience |-> "3y", job_link |-> "http://j/1"]

PartialJob == [job_title |-> "qa"]

JobRecords == {FullJob, PartialJob}

FullTrend ==
  [industry |-> "ads", avg_salary |-> 50, growth_rate |-> 3,
   demand_level |-> "High", top_skills |-> <<"seo">>]

PartialTrend == [industry |-> "retail"]

TrendRecords == {FullTrend, PartialTrend}

ListsOf(S) == UNION {[1..n -> S] : n \in 0..MaxRecords}

\* a Python dict is the set of its <<key, value>> pairs
Dicts ==
  {{}}
  \cup {{<<"job_postings", j>>} : j \in ListsOf(JobRecords)}
  \cup {{<<"industry_trends", t>>} : t \in ListsOf(TrendRecords)}
  \cup {{<<"job_postings", j>>, <<"industry_trends", t>>} :
          j \in ListsOf(JobRecords), t \in ListsOf(TrendRecords)}

NoneData == [type |-> "NoneType"]

DictData(items) == [type |-> "dict", items |-> items]

\* the data member of an extraction response: a dict, or None
Payloads == {NoneData} \cup {DictData(d) : d \in Dicts}

\* what firecrawl.extract returns: the members find_jobs and get_industry_trends read.
\* src/app.py reads them as attributes (raw_response.success, raw_response.data),
\* src/job-hunt.py as dict entries (raw_response.get('success'), raw_response['data']);
\* each file gets the response type of the client version its extract call is written for.
Responses == [success : BOOLEAN, data : Payloads]

\* the fields of NestedModel1 and of IndustryTrend
JobFields == {"region", "role", "job_title", "experience", "job_link"}

TrendFields == {"industry", "avg_salary", "growth_rate", "demand_level", "top_skills"}

\* NestedModel1(**r) / IndustryTrend(**r): every field, default=None where r has none
SchemaInstance(fields, r) ==
  [f \in fields |-> IF f \in DOMAIN r THEN r[f] ELSE "None"]

\* "at least 3 different job opportunities. MAXIMUM 10." of the extraction prompt
MinRequested == 3

MaxRequested == 10

\* a list with one element more than the extraction prompt asks for at most
LongList(r) == [i \in 1..(MaxRequested + 1) |-> r]

\* successful responses that carry such a list
LongResponses ==
  { [success |-> TRUE, data |-> DictData({<<"job_postings", LongList(FullJob)>>})],
    [success |-> TRUE, data |-> DictData({<<"industry_trends", LongList(PartialTrend)>>})] }

----------------------------------------------------------------------------
(* Query building *)

\* the urls list of find_jobs
JobUrls(jt, loc) ==
  LET formatted_job_title == Hyphenate(Lower(jt))
      formatted_location == Hyphenate(Lower(loc))
  IN  << NaukriBase \o formatted_job_title \o JobsIn \o formatted_location,
         IndeedBase \o formatted_job_title \o IndeedLoc \o formatted_location,
         MonsterBase \o formatted_job_title \o MonsterWhere \o formatted_location >>

\* the first url of get_industry_trends
PayscaleUrl(cat) == PayscaleBase \o Hyphenate(cat) \o PayscaleTail

\* the second url of get_industry_trends
GlassdoorUrl(cat) ==
  GlassdoorBase \o Hyphenate(Lower(cat)) \o GlassdoorMid \o DecStr(Len(cat)) \o GlassdoorTail

\* the urls list of get_industry_trends
TrendUrls(cat) == << PayscaleUrl(cat), GlassdoorUrl(cat) >>

----------------------------------------------------------------------------
(* Normalization of the extraction response *)

\* dict.get(key, default)
DictGet(items, key, default) ==
  IF \E p \in items : p[1] = key
  THEN (CHOOSE p \in items : p[1] = key)[2]
  ELSE default

\* a data.get(key, []) that drops a list shorter or longer than the prompt asks for
PayloadGetEnforcesRange(data, key) ==
  IF data.type = "dict"
  THEN LET l == DictGet(data.items, key, <<>>)
       IN  [raised |-> FALSE,
            value |-> IF Len(l) < MinRequested \/ Len(l) > MaxRequested THEN <<>> ELSE l]
  ELSE [raised |-> TRUE, desc |-> NoneTypeGetError]

\* data[key] in place of data.get(key, []): a missing key raises KeyError
PayloadIndex(data, key) ==
  IF data.type # "dict" THEN [raised |-> TRUE, desc |-> NoneTypeGetError]
  ELSE IF \E p \in data.items : p[1] = key
       THEN [raised |-> FALSE, value |-> DictGet(data.items, key, <<>>)]
       ELSE [raised |-> TRUE, desc |-> KeyErrorText]

\* data.get(key, []): None has no get, so the call raises AttributeError
PayloadGet(data, key) ==
  IF data.type = "dict"
  THEN [raised |-> FALSE, value |-> DictGet(data.items, key, <<>>)]
  ELSE [raised |-> TRUE, desc |-> NoneTypeGetError]

\* a success test that looks at the response and not at its flag ("if raw_response:")
SucceededIgnoresFlag(resp) == resp.success \in BOOLEAN

\* the success test of the response
Succeeded(resp) == resp.success

\* jobs as find_jobs derives them: "if raw_response.success: jobs = data.get(...) else: jobs = []"
NormalizeJobs(resp) ==
  IF Succeeded(resp)
  THEN PayloadGet(resp.data, "job_postings")
  ELSE [raised |-> FALSE, value |-> <<>>]

\* "if jobs is None" in place of "if not jobs": an empty list is let through
NoRecordsIsNone(recs) == Len(recs) < 0

\* "if not jobs" / "if not industries"
NoRecords(recs) == recs = <<>>

\* get_industry_trends: the string returned when the industry_trends list is empty
NoTrendsEmptyMessage(cat) == NoTrendsEmptyHead \o cat \o NoTrendsEmptyTail

\* get_industry_trends: the string returned when the response is not a success
NoTrendsFailedMessage(cat) == NoTrendsFailedHead \o cat \o NoTrendsFailedTail

----------------------------------------------------------------------------
(* Synthesis prompt: the f-string given to agent.run, as its parts in order *)

Text(t) == [kind |-> "text", text |-> t]

Embedded(recs) == [kind |-> "records", recs |-> recs]

Field(s) == [kind |-> "field", field |-> s]

DoNotCreate == Text("2.DO NOT CREATE new Job Listings")

JobsPrompt(recs, jt, loc) ==
  << Text("As a career expert, anaylze these job opportunities:"),
     Text("Job Found in json format:"),
     Embedded(recs),
     Text("1.ONLY analyze jobs from the above JSON data that match the user's requirements:"),
     Field(jt),
     Field(loc),
     DoNotCreate,
     Text("3.From the matching jobs, select 5-6 jobs that best match the user's skills and experience"),
     Text("Please provide your analysis in this format:"),
     Text("SELECTED JOB OPPORTUNITIES"),
     Text("SKILLS MATCH ANALYSIS"),
     Text("RECOMMENDATIONS"),
     Text("APPLICATION TIPS"),
     Text("Format your response in a clear, structured way using the above sections.") >>

TrendsPrompt(recs, cat) ==
  << Text("As a career expert, analyze these industry trends for"),
     Field(cat),
     Embedded(recs),
     Text("Please provide:"),
     Text("1. A bullet-point summary of the salary and demand trends"),
     Text("2. Identify the top skills in demand for this industry"),
     Text("3. Career growth opportunities:"),
     Text("4. Specific advice for job seekers based on these trends"),
     Text("Format the response as follows:"),
     Text("INDUSTRY TRENDS SUMMARY"),
     Text("TOP SKILLS IN DEMAND"),
     Text("CAREER GROWTH OPPORTUNITIES"),
     Text("RECOMMENDATIONS FOR JOB SEEKERS") >>

\* a return that puts a heading before the content
ReturnContentWithHeading(an) == ReportA \o an.content

\* "return analysis.content"
ReturnContent(an) == an.content

----------------------------------------------------------------------------
(* except Exception as e *)

\* a message that leaves str(e) out
ErrorMessageWithoutDescription(fl, d) ==
  IF fl = "find_jobs" THEN JobsErrorHead \o JobsErrorTail
  ELSE TrendsErrorHead \o TrendsErrorTail

\* the string the handler returns
ErrorMessage(fl, d) ==
  IF fl = "find_jobs" THEN JobsErrorHead \o d \o JobsErrorTail
  ELSE TrendsErrorHead \o d \o TrendsErrorTail

\* a handler that logs and re-raises
ExceptHandlerReraises(fl, d) ==
  [pc |-> "ERROR", result |-> <<>>, escaped |-> TRUE]

\* a handler that starts the method's remote calls over instead of returning
ExceptHandlerStartsOver(fl, d) ==
  [pc |-> "EXTRACT", result |-> <<>>, escaped |-> FALSE]

\* the handler: the method ends by returning the message
ExceptHandler(fl, d) ==
  [pc |-> "ERROR", result |-> ErrorMessage(fl, d), escaped |-> FALSE]

----------------------------------------------------------------------------
(* main(): the test it applies to a returned string *)

LooksLikeError(v, s) ==
  IF v = "app" THEN Contains(Lower(s), ErrorWord) ELSE Contains(s, AnErrorOccurred)

----------------------------------------------------------------------------
(* The body of the two methods after firecrawl.extract has returned *)

\* the method returns text without calling agent.run
Returned(state, recs, text) ==
  [pc |-> state, records |-> recs, prompt |-> <<>>, result |-> text,
   escaped |-> FALSE, exc |-> <<>>, synth |-> FALSE]

\* an exception raised inside the try block reaches the except clause
Caught(fl, d) ==
  LET h == ExceptHandler(fl, d)
  IN  [pc |-> h.pc, records |-> <<>>, prompt |-> <<>>, result |-> h.result,
       escaped |-> h.escaped, exc |-> <<d>>, synth |-> FALSE]

\* the method calls agent.run(p) and waits for it
CallSynthesis(recs, p) ==
  [pc |-> "SYNTHESIZE", records |-> recs, prompt |-> p, result |-> <<>>,
   escaped |-> FALSE, exc |-> <<>>, synth |-> TRUE]

\* find_jobs from "jobs = []" to the agent.run call
FindJobsProcess(resp, jt, loc) ==
  LET n == NormalizeJobs(resp)
  IN  IF n.raised THEN Caught("find_jobs", n.desc)
      ELSE IF NoRecords(n.value) THEN Returned("EMPTY_RESULT", n.value, NoJobsMessage)
      ELSE CallSynthesis(n.value, JobsPrompt(n.value, jt, loc))

\* get_industry_trends from "industries = []" to the agent.run call
TrendsProcess(resp, cat) ==
  IF Succeeded(resp)
  THEN LET n == PayloadGet(resp.data, "industry_trends")
       IN  IF n.raised THEN Caught("get_industry_trends", n.desc)
           ELSE IF NoRecords(n.value)
                THEN Returned("EMPTY_RESULT", n.value, NoTrendsEmptyMessage(cat))
                ELSE CallSynthesis(n.value, TrendsPrompt(n.value, cat))
  ELSE Returned("EMPTY_RESULT", <<>>, NoTrendsFailedMessage(cat))

----------------------------------------------------------------------------
(* Session state and the sidebar of main() *)

\* a key absent from st.session_state
Missing == "<missing>"

\* "job_agent" not in st.session_state
NoAgent == [built |-> FALSE]

\* JobHuntingAgent.__init__: the two clients keep the keys and the model they are built with
NewAgent(fk, mk, m) ==
  [built |-> TRUE, firecrawl_api_key |-> fk, mistral_api_key |-> mk, model_id |-> m]

\* st.session_state of a fresh session
EmptySession ==
  [firecrawl_key |-> Missing, mistral_key |-> Missing, model_id |-> Missing,
   job_agent |-> NoAgent]

\* the options of the model selectbox of src/app.py; src/job-hunt.py fixes "gpt-4o"
ModelOptions == {"mistral-small-latest", "mistral-medium-latest"}

DefaultModel == "mistral-small-latest"

\* the model src/job-hunt.py always uses
LocalModel == "gpt-4o"

\* what the user can have typed in the two key boxes of the sidebar
TypedFirecrawlKeys == {"", "fk-1", "fk-2"}

TypedLlmKeys == {"", "mk-1"}

\* the environments the process can be started in
NoEnv == [firecrawl |-> "", llm |-> ""]

KeysEnv == [firecrawl |-> "fk-env", llm |-> "mk-env"]

\* a create_job_agent that builds a new agent on every run of the page
CreateJobAgentAlways(s, v) ==
  [s EXCEPT !.job_agent =
     NewAgent(s.firecrawl_key,
              IF s.mistral_key = Missing THEN "dummy_key" ELSE s.mistral_key,
              IF v = "app" THEN s.model_id ELSE LocalModel)]

\* create_job_agent
CreateJobAgent(s, v) ==
  IF s.job_agent = NoAgent
  THEN [s EXCEPT !.job_agent =
          NewAgent(s.firecrawl_key,
                   IF s.mistral_key = Missing THEN "dummy_key" ELSE s.mistral_key,
                   IF v = "app" THEN s.model_id ELSE LocalModel)]
  ELSE s

\* the sidebar block of main(): model selection, keys, create_job_agent
Sidebar(s, e, v, typed_fk, typed_mk, selected) ==
  LET s1 == [s EXCEPT !.model_id = IF v = "app" THEN selected ELSE LocalModel]
      firecrawl_key == IF typed_fk # "" THEN typed_fk ELSE e.firecrawl
      mistral_key == IF typed_mk # "" THEN typed_mk ELSE e.llm
  IN  IF firecrawl_key # "" /\ mistral_key # ""
      THEN CreateJobAgent([s1 EXCEPT !.firecrawl_key = firecrawl_key,
                                     !.mistral_key = mistral_key], v)
      ELSE s1

\* the st.info hint main()'s except clause picks for str(e) = d
HintFor(d) ==
  IF Contains(Lower(d), WebsiteUnsupported) THEN "st.info:unsupported_site"
  ELSE IF Contains(Lower(d), ApiKeyWord) THEN "st.info:api_keys"
  ELSE "st.info:connectivity"

\* main()'s except clause: the error notice and one hint
MainExcept(d) == <<"st.error:exception", HintFor(d)>>

\* data.pop("job_postings", []) in place of data.get: the list is taken out of the response
AfterPopping(resp) ==
  IF resp.data.type = "dict"
  THEN [resp EXCEPT !.data = DictData({p \in resp.data.items : p[1] # "job_postings"})]
  ELSE resp

\* reading raw_response.success and raw_response.data.get(...) leaves the response as it was
AfterReading(resp) == resp

----------------------------------------------------------------------------
(* State machine *)

Terminal == {"DONE", "EMPTY_RESULT", "ERROR"}

\* no method is running and nothing is on the page
IdleInit ==
  /\ variant \in Variants
  /\ pc = "idle"
  /\ flow = "none"
  /\ job_title = <<>>
  /\ location = <<>>
  /\ job_category = <<>>
  /\ urls = <<>>
  /\ raw_response = <<>>
  /\ records = <<>>
  /\ prompt = <<>>
  /\ result = <<>>
  /\ escaped = FALSE
  /\ excDesc = <<>>
  /\ extractCalls = 0
  /\ synthCalls = 0
  /\ extractOutcome = "none"
  /\ synthOutcome = "none"
  /\ analysis = <<>>
  /\ job_results = <<>>
  /\ shown = <<>>
  /\ extracted = <<>>
  /\ call_agent = NoAgent

\* the page has been loaded once in a process that has both keys in its environment
Init ==
  /\ IdleInit
  /\ env = KeysEnv
  /\ session = Sidebar(EmptySession, KeysEnv, variant, "", "", DefaultModel)
  /\ first_agent = session.job_agent

\* a method is entered: it builds its urls and calls firecrawl.extract
Invoke(fl, u) ==
  /\ flow' = fl
  /\ urls' = u
  /\ pc' = "EXTRACT"
  /\ raw_response' = <<>>
  /\ records' = <<>>
  /\ prompt' = <<>>
  /\ result' = <<>>
  /\ escaped' = FALSE
  /\ excDesc' = <<>>
  /\ extractCalls' = 1
  /\ synthCalls' = 0
  /\ extractOutcome' = "pending"
  /\ synthOutcome' = "none"
  /\ analysis' = <<>>
  /\ extracted' = <<>>
  /\ call_agent' = session.job_agent

\* main() has finished the run and waits for the next button press
BackToIdle ==
  /\ pc' = "idle"
  /\ flow' = "none"
  /\ job_title' = <<>>
  /\ location' = <<>>
  /\ job_category' = <<>>
  /\ urls' = <<>>
  /\ raw_response' = <<>>
  /\ records' = <<>>
  /\ prompt' = <<>>
  /\ result' = <<>>
  /\ escaped' = FALSE
  /\ excDesc' = <<>>
  /\ extractCalls' = 0
  /\ synthCalls' = 0
  /\ extractOutcome' = "none"
  /\ synthOutcome' = "none"
  /\ analysis' = <<>>
  /\ job_results' = <<>>
  /\ extracted' = <<>>
  /\ call_agent' = NoAgent

\* the button is pressed with an empty job title or location: main() returns
RejectSearch(jt, loc) ==
  /\ pc = "idle"
  /\ session.job_agent # NoAgent
  /\ jt = <<>> \/ loc = <<>>
  /\ shown' = <<"st.error:fields">>
  /\ UNCHANGED <<variant, pc, flow, job_title, location, job_category, urls, raw_response,
                 records, prompt, result, escaped, excDesc, extractCalls, synthCalls,
                 extractOutcome, synthOutcome, analysis, job_results, extracted,
                 call_agent>>
  /\ UNCHANGED sessionVars

\* the button is pressed: main() calls find_jobs
StartJobSearch(jt, loc, cat) ==
  /\ pc = "idle"
  /\ session.job_agent # NoAgent
  /\ jt # <<>> /\ loc # <<>>
  /\ job_title' = jt
  /\ location' = loc
  /\ job_category' = cat
  /\ job_results' = <<>>
  /\ shown' = <<>>
  /\ Invoke("find_jobs", JobUrls(jt, loc))
  /\ UNCHANGED variant
  /\ UNCHANGED sessionVars

\* firecrawl.extract returns resp; the method runs on to its return or to agent.run
ExtractReturns(resp) ==
  /\ pc = "EXTRACT"
  /\ LET o == IF flow = "find_jobs"
              THEN FindJobsProcess(resp, job_title, location)
              ELSE TrendsProcess(resp, job_category)
     IN  /\ pc' = o.pc
         /\ records' = o.records
         /\ prompt' = o.prompt
         /\ result' = o.result
         /\ escaped' = o.escaped
         /\ excDesc' = o.exc
         /\ synthCalls' = IF o.synth THEN synthCalls + 1 ELSE synthCalls
         /\ synthOutcome' = IF o.synth THEN "pending" ELSE synthOutcome
  /\ raw_response' = <<AfterReading(resp)>>
  /\ extracted' = <<resp>>
  /\ extractOutcome' = "returned"
  /\ UNCHANGED <<variant, flow, job_title, location, job_category, urls, extractCalls,
                 analysis, job_results, shown, call_agent>>
  /\ UNCHANGED sessionVars

\* an extraction client that swallows the exception and hands back a failed response
ExtractRaisesDegrades(d) ==
  /\ pc = "EXTRACT"
  /\ LET failed == [success |-> FALSE, data |-> NoneData]
         o == IF flow = "find_jobs"
              THEN FindJobsProcess(failed, job_title, location)
              ELSE TrendsProcess(failed, job_category)
     IN  /\ pc' = o.pc
         /\ result' = o.result
         /\ escaped' = o.escaped
         /\ raw_response' = <<failed>>
  /\ excDesc' = <<d>>
  /\ extractOutcome' = "raised"
  /\ UNCHANGED <<variant, flow, job_title, location, job_category, urls, records, prompt,
                 extractCalls, synthCalls, synthOutcome, analysis, job_results, shown>>
  /\ UNCHANGED <<extracted, call_agent>>
  /\ UNCHANGED sessionVars

\* a handler that calls firecrawl.extract once more before giving up
ExtractRaisesRetries(d) ==
  /\ pc = "EXTRACT"
  /\ IF extractCalls < 2
     THEN /\ extractCalls' = extractCalls + 1
          /\ extractOutcome' = "pending"
          /\ UNCHANGED <<pc, result, escaped, excDesc>>
     ELSE /\ LET o == Caught(flow, d)
             IN  /\ pc' = o.pc
                 /\ result' = o.result
                 /\ escaped' = o.escaped
                 /\ excDesc' = o.exc
          /\ extractOutcome' = "raised"
          /\ UNCHANGED extractCalls
  /\ UNCHANGED <<variant, flow, job_title, location, job_category, urls, raw_response,
                 records, prompt, synthCalls, synthOutcome, analysis, job_results, shown>>
  /\ UNCHANGED <<extracted, call_agent>>
  /\ UNCHANGED sessionVars

\* firecrawl.extract raises an exception whose str() is d
ExtractRaises(d) ==
  /\ pc = "EXTRACT"
  /\ LET o == Caught(flow, d)
     IN  /\ pc' = o.pc
         /\ result' = o.result
         /\ escaped' = o.escaped
         /\ excDesc' = o.exc
  /\ extractOutcome' = "raised"
  /\ UNCHANGED <<variant, flow, job_title, location, job_category, urls, raw_response,
                 records, prompt, extractCalls, synthCalls, synthOutcome, analysis,
                 job_results, shown>>
  /\ UNCHANGED <<extracted, call_agent>>
  /\ UNCHANGED sessionVars

\* agent.run returns an object whose content is c
SynthReturns(c) ==
  /\ pc = "SYNTHESIZE"
  /\ analysis' = <<[content |-> c]>>
  /\ result' = ReturnContent([content |-> c])
  /\ pc' = "DONE"
  /\ synthOutcome' = "returned"
  /\ UNCHANGED <<variant, flow, job_title, location, job_category, urls, raw_response,
                 records, prompt, escaped, excDesc, extractCalls, synthCalls,
                 extractOutcome, job_results, shown>>
  /\ UNCHANGED <<extracted, call_agent>>
  /\ UNCHANGED sessionVars

\* agent.run raises an exception whose str() is d
SynthRaises(d) ==
  /\ pc = "SYNTHESIZE"
  /\ LET o == Caught(flow, d)
     IN  /\ pc' = o.pc
         /\ result' = o.result
         /\ escaped' = o.escaped
         /\ excDesc' = o.exc
  /\ synthOutcome' = "raised"
  /\ UNCHANGED <<variant, flow, job_title, location, job_category, urls, raw_response,
                 records, prompt, extractCalls, synthCalls, extractOutcome, analysis,
                 job_results, shown>>
  /\ UNCHANGED <<extracted, call_agent>>
  /\ UNCHANGED sessionVars

\* find_jobs is over: main() shows its result and, unless it looks like an error,
\* calls get_industry_trends
MainAfterFindJobs ==
  /\ pc \in Terminal
  /\ flow = "find_jobs"
  /\ IF escaped
     THEN /\ shown' = shown \o MainExcept(excDesc[1])
          /\ BackToIdle
     ELSE IF LooksLikeError(variant, result)
     THEN /\ shown' = Append(shown, "st.error:job_results")
          /\ BackToIdle
     ELSE /\ shown' = shown \o <<"st.success:jobs", "st.markdown:job_results">>
          /\ job_results' = result
          /\ Invoke("get_industry_trends", TrendUrls(job_category))
          /\ UNCHANGED <<job_title, location, job_category>>
  /\ UNCHANGED variant
  /\ UNCHANGED sessionVars

\* get_industry_trends is over: main() shows its result and the run ends
MainAfterTrends ==
  /\ pc \in Terminal
  /\ flow = "get_industry_trends"
  /\ IF escaped
     THEN shown' = shown \o MainExcept(excDesc[1])
     ELSE IF LooksLikeError(variant, result)
     THEN shown' = Append(shown, "st.error:industry_trends")
     ELSE shown' = shown \o <<"st.success:trends", "st.markdown:industry_trends">>
  /\ BackToIdle
  /\ UNCHANGED variant
  /\ UNCHANGED sessionVars

\* the page is run again after the user changed a sidebar widget
PageRun(typed_fk, typed_mk, selected) ==
  /\ pc = "idle"
  /\ session' = Sidebar(session, env, variant, typed_fk, typed_mk, selected)
  /\ first_agent' = IF first_agent = NoAgent THEN session'.job_agent ELSE first_agent
  /\ shown' = <<>>
  /\ UNCHANGED <<variant, pc, flow, job_title, location, job_category, urls, raw_response,
                 records, prompt, result, escaped, excDesc, extractCalls, synthCalls,
                 extractOutcome, synthOutcome, analysis, job_results, extracted, env,
                 call_agent>>

\* the button is pressed before any agent exists: main() asks for the keys and returns
RejectNoAgent ==
  /\ pc = "idle"
  /\ session.job_agent = NoAgent
  /\ shown' = <<"st.error:api_keys">>
  /\ UNCHANGED <<variant, pc, flow, job_title, location, job_category, urls, raw_response,
                 records, prompt, result, escaped, excDesc, extractCalls, synthCalls,
                 extractOutcome, synthOutcome, analysis, job_results, extracted,
                 call_agent>>
  /\ UNCHANGED sessionVars

Next ==
  \/ \E jt \in JobTitles, loc \in Locations : RejectSearch(jt, loc)
  \/ \E jt \in JobTitles, loc \in Locations, cat \in JobCategories : StartJobSearch(jt, loc, cat)
  \/ \E resp \in Responses : ExtractReturns(resp)
  \/ \E resp \in LongResponses : ExtractReturns(resp)
  \/ \E d \in ExcDescriptions : ExtractRaises(d)
  \/ \E c \in Contents : SynthReturns(c)
  \/ \E d \in ExcDescriptions : SynthRaises(d)
  \/ MainAfterFindJobs
  \/ MainAfterTrends

Spec == Init /\ [][Next]_vars

\* the pending firecrawl.extract call returns or raises
ExtractCompletes ==
  \/ \E resp \in Responses \cup LongResponses : ExtractReturns(resp)
  \/ \E d \in ExcDescriptions : ExtractRaises(d)

\* the pending agent.run call returns or raises
SynthCompletes ==
  \/ \E c \in Contents : SynthReturns(c)
  \/ \E d \in ExcDescriptions : SynthRaises(d)

\* Next for one job title and one location: every response, content and exception
FairNext ==
  \/ RejectSearch(<<>>, NewYork)
  \/ \E cat \in JobCategories : StartJobSearch(DataScientist, NewYork, cat)
  \/ \E resp \in Responses : ExtractReturns(resp)
  \/ \E resp \in LongResponses : ExtractReturns(resp)
  \/ \E d \in ExcDescriptions : ExtractRaises(d)
  \/ \E c \in Contents : SynthReturns(c)
  \/ \E d \in ExcDescriptions : SynthRaises(d)
  \/ MainAfterFindJobs
  \/ MainAfterTrends

\* every remote call comes back, and main() runs on once a method has returned
FairSpec ==
  /\ Init
  /\ [][FairNext]_vars
  /\ WF_vars(ExtractCompletes)
  /\ WF_vars(SynthCompletes)
  /\ WF_vars(MainAfterFindJobs \/ MainAfterTrends)

\* the session after the first run of the page, with or without keys in the environment
SessionInit ==
  /\ IdleInit
  /\ env \in {NoEnv, KeysEnv}
  /\ session = Sidebar(EmptySession, env, variant, "", "", DefaultModel)
  /\ first_agent = session.job_agent

\* the responses followed in the session specification
SessionResponses ==
  { [success |-> FALSE, data |-> NoneData],
    [success |-> TRUE, data |-> DictData({<<"job_postings", <<FullJob>>>>,
                                          <<"industry_trends", <<FullTrend>>>>})] }

SessionNext ==
  \/ \E typed_fk \in TypedFirecrawlKeys, typed_mk \in TypedLlmKeys, selected \in ModelOptions :
        PageRun(typed_fk, typed_mk, selected)
  \/ RejectNoAgent
  \/ \E jt \in {DataScientist, <<>>} : RejectSearch(jt, NewYork)
  \/ StartJobSearch(DataScientist, NewYork, Marketing)
  \/ \E resp \in SessionResponses : ExtractReturns(resp)
  \/ ExtractRaises(TimeoutError)
  \/ SynthReturns(ReportA)
  \/ SynthRaises(ApiKeyError)
  \/ MainAfterFindJobs
  \/ MainAfterTrends

\* the same program, followed over the runs of the page of one session
SessionSpec == SessionInit /\ [][SessionNext]_vars

----------------------------------------------------------------------------
(* Properties *)

\* a method is being executed or has just returned
InInvocation == flow # "none"

\* the strings get_industry_trends / find_jobs return when there is nothing to analyse
NoResultsMessages ==
  IF flow = "find_jobs" THEN {NoJobsMessage}
  ELSE {NoTrendsEmptyMessage(job_category), NoTrendsFailedMessage(job_category)}

\* the extraction response of this invocation is a dict payload without key k
KeyAbsent(k) ==
  /\ raw_response # <<>>
  /\ raw_response[1].data.type = "dict"
  /\ ~ \E p \in raw_response[1].data.items : p[1] = k

\* the payload key the running method reads
ExpectedKey == IF flow = "find_jobs" THEN "job_postings" ELSE "industry_trends"

\* C1: when the extraction returned and the record sequence derived from it is empty,
\* the invocation has ended with a no-results message and agent.run was not called.
C1_EmptyRecordsNoSynthesis ==
  (InInvocation /\ extractOutcome = "returned" /\ excDesc = <<>> /\ records = <<>>)
    => /\ pc = "EMPTY_RESULT"
       /\ result \in NoResultsMessages
       /\ synthCalls = 0
       /\ prompt = <<>>
       /\ analysis = <<>>

\* C1 witness: get_industry_trends got a successful response whose industry_trends
\* list is empty and has returned.
C1_Witness ==
  /\ flow = "get_industry_trends"
  /\ pc = "EMPTY_RESULT"
  /\ raw_response = <<[success |-> TRUE, data |-> DictData({<<"industry_trends", <<>>>>})]>>
  /\ result = NoTrendsEmptyMessage(job_category)

\* C2 (as claimed): whenever the record sequence is non-empty, agent.run was called
\* exactly once with a prompt that embeds the records and carries the instruction
\* not to create new listings, in both flows.
C2_PromptForbidsInvention ==
  (InInvocation /\ records # <<>>)
    => /\ synthCalls = 1
       /\ \E i \in 1..Len(prompt) : prompt[i] = Embedded(records)
       /\ \E i \in 1..Len(prompt) : prompt[i] = DoNotCreate

\* C3: an exception raised by firecrawl.extract or agent.run never leaves the method:
\* the method has returned a non-empty string.
C3_ExceptionsAreCaught ==
  (extractOutcome = "raised" \/ synthOutcome = "raised")
    => /\ ~escaped
       /\ pc \in Terminal
       /\ result # <<>>
       /\ \A i \in 1..Len(result) : result[i] \in STRING

\* C3 witness: agent.run raised inside get_industry_trends and the method returned.
C3_Witness ==
  /\ flow = "get_industry_trends"
  /\ synthOutcome = "raised"
  /\ pc = "ERROR"
  /\ ~escaped

\* C4: when a remote call raised with description d, the returned string contains
\* "error" and contains d.
C4_ErrorMessageEmbedsDescription ==
  (extractOutcome = "raised" \/ synthOutcome = "raised")
    => /\ Len(excDesc) = 1
       /\ Contains(result, ErrorWord)
       /\ Contains(result, excDesc[1])

\* C4 witness: firecrawl.extract raised "Invalid API key" inside find_jobs.
C4_Witness ==
  /\ flow = "find_jobs"
  /\ extractOutcome = "raised"
  /\ excDesc = <<ApiKeyError>>
  /\ pc = "ERROR"

\* C5 (as claimed): after firecrawl.extract raised, the pipeline went on to normalize
\* zero records, so the invocation ended as an empty result.
C5_ExtractionFailureDegrades ==
  extractOutcome = "raised" => (pc = "EMPTY_RESULT" /\ records = <<>>)

\* C5 (amended): an exception raised by firecrawl.extract goes straight to the except
\* clause: there is no response to normalize, agent.run is not called and the method
\* returns the error message; it never ends as an empty result.
C5_ExtractionFailureIsError ==
  extractOutcome = "raised"
    => /\ pc = "ERROR"
       /\ raw_response = <<>>
       /\ records = <<>>
       /\ synthCalls = 0
       /\ result \notin NoResultsMessages
       /\ result = ErrorMessage(flow, excDesc[1])

\* C5 witness: firecrawl.extract timed out inside get_industry_trends.
C5_Witness ==
  /\ flow = "get_industry_trends"
  /\ extractOutcome = "raised"
  /\ excDesc = <<TimeoutError>>
  /\ pc = "ERROR"

\* C6: a response whose success flag is false gives an empty record sequence whatever
\* its payload holds: no-results message, no agent.run call.
C6_FailedResponseHasNoRecords ==
  (raw_response # <<>> /\ ~raw_response[1].success)
    => /\ records = <<>>
       /\ pc = "EMPTY_RESULT"
       /\ result \in NoResultsMessages
       /\ synthCalls = 0

\* C6 witness: find_jobs got a failed response whose job_postings list is not empty.
C6_Witness ==
  /\ flow = "find_jobs"
  /\ pc = "EMPTY_RESULT"
  /\ raw_response # <<>>
  /\ ~raw_response[1].success
  /\ raw_response[1].data = DictData({<<"job_postings", <<FullJob, PartialJob>>>>})

\* C7: a successful response whose dict payload lacks the expected key ends the
\* invocation as an empty result, never as an error, without an agent.run call.
C7_MissingKeyIsEmptyResult ==
  (raw_response # <<>> /\ raw_response[1].success /\ KeyAbsent(ExpectedKey))
    => /\ pc = "EMPTY_RESULT"
       /\ result \in NoResultsMessages
       /\ excDesc = <<>>
       /\ synthCalls = 0

\* C7 witness: find_jobs got {success: true, data: {}}.
C7_Witness ==
  /\ flow = "find_jobs"
  /\ raw_response = <<[success |-> TRUE, data |-> DictData({})]>>
  /\ pc = "EMPTY_RESULT"
  /\ result = NoJobsMessage

\* C8: when agent.run returned content c, the method returns exactly c.
C8_ContentReturnedUnchanged ==
  pc = "DONE"
    => /\ records # <<>>
       /\ Len(analysis) = 1
       /\ result = analysis[1].content

\* C8 witness: get_industry_trends returned the content "0 errors".
C8_Witness ==
  /\ flow = "get_industry_trends"
  /\ pc = "DONE"
  /\ analysis = <<[content |-> ReportB]>>
  /\ result = ReportB

\* C9: in an invocation firecrawl.extract is called exactly once, agent.run at most
\* once and only after firecrawl.extract returned, and a remote call that raised is
\* not repeated: the invocation is in ERROR.
C9_OneExtractionAtMostOneSynthesis ==
  InInvocation
    => /\ extractCalls = 1
       /\ synthCalls \in {0, 1}
       /\ (synthCalls = 1 => extractOutcome = "returned")
       /\ (synthOutcome # "none" => synthCalls = 1)
       /\ ((extractOutcome = "raised" \/ synthOutcome = "raised") => pc = "ERROR")
       /\ (pc = "EXTRACT" => extractOutcome = "pending")
       /\ (pc = "SYNTHESIZE" => synthOutcome = "pending")

\* C9 witness: agent.run raised after one extraction and one synthesis call.
C9_Witness ==
  /\ pc = "ERROR"
  /\ synthOutcome = "raised"
  /\ extractOutcome = "returned"
  /\ extractCalls = 1
  /\ synthCalls = 1

\* the lower-cased, hyphen-joined form of a field
Slug(s) == Hyphenate(Lower(s))

\* C10 (as claimed): find_jobs builds 3 urls and get_industry_trends 2, and every url
\* contains the lower-cased, hyphen-joined form of the fields it is built from.
C10_UrlsContainSlug ==
  /\ flow = "find_jobs"
       => /\ Len(urls) = 3
          /\ \A i \in 1..Len(urls) :
               Contains(urls[i], Slug(job_title)) /\ Contains(urls[i], Slug(location))
  /\ flow = "get_industry_trends"
       => /\ Len(urls) = 2
          /\ \A i \in 1..Len(urls) : Contains(urls[i], Slug(job_category))

\* the records a second derivation from the stored response gives
DerivedAgain ==
  LET resp == raw_response[1]
  IN  IF flow = "find_jobs" THEN NormalizeJobs(resp)
      ELSE IF Succeeded(resp) THEN PayloadGet(resp.data, "industry_trends")
      ELSE [raised |-> FALSE, value |-> <<>>]

PromptRecords ==
  IF \E i \in 1..Len(prompt) : prompt[i].kind = "records"
  THEN prompt[CHOOSE i \in 1..Len(prompt) : prompt[i].kind = "records"].recs
  ELSE <<>>

\* the fields of the record kind of the running method
FlowFields == IF flow = "find_jobs" THEN JobFields ELSE TrendFields

\* C12 (as claimed): every record embedded in the synthesis prompt is an instance of
\* NestedModel1 / IndustryTrend, that is, it came out of schema validation.
C12_PromptRecordsValidated ==
  \A k \in 1..Len(PromptRecords) :
    \E r \in JobRecords \cup TrendRecords :
      PromptRecords[k] = SchemaInstance(FlowFields, r)

\* the list the payload holds under the expected key (empty when there is none)
PayloadList ==
  IF raw_response # <<>> /\ raw_response[1].data.type = "dict"
  THEN DictGet(raw_response[1].data.items, ExpectedKey, <<>>)
  ELSE <<>>

\* C14 (as claimed): an invocation whose extraction call returned is in ERROR only
\* because agent.run raised.
C14_ErrorOnlyFromRemoteCalls ==
  (extractOutcome = "returned" /\ pc = "ERROR") => synthOutcome = "raised"

\* C15 (as claimed): each record handed to agent.run carries every field of its kind,
\* the fields the extracted element lacks being None.
C15_RecordsCarryEveryField ==
  (raw_response # <<>> /\ raw_response[1].success /\ prompt # <<>>)
    => /\ Len(PromptRecords) = Len(PayloadList)
       /\ \A k \in 1..Len(PromptRecords) :
            PromptRecords[k] = SchemaInstance(FlowFields, PayloadList[k])

\* C16: a successful response whose list has N >= 1 elements gives agent.run exactly
\* these N elements in their order, whatever N is.
C16_AllRecordsInOrder ==
  (raw_response # <<>> /\ raw_response[1].success /\ PayloadList # <<>>)
    => /\ records = PayloadList
       /\ PromptRecords = PayloadList
       /\ synthCalls = 1
       /\ pc \in {"SYNTHESIZE", "DONE", "ERROR"}
       /\ (pc = "ERROR" => synthOutcome = "raised")

\* C16 witness: eleven equal records, more than the prompt's maximum, were analysed.
C16_Witness ==
  /\ pc = "DONE"
  /\ Len(PayloadList) = MaxRequested + 1
  /\ records = PayloadList
  /\ PromptRecords = PayloadList

\* main() has put the returned string on the page with st.error
ShownAsError(page) ==
  /\ page # <<>>
  /\ page[Len(page)] \in {"st.error:job_results", "st.error:industry_trends"}

\* C17 (as claimed): main() shows the returned string with st.error exactly when the
\* invocation ended in ERROR.
C17_ErrorShownIffErrorState ==
  [][(InInvocation /\ pc \in Terminal) => ((pc = "ERROR") <=> ShownAsError(shown'))]_vars

\* C18 (as claimed): get_industry_trends is entered only from main(), after find_jobs
\* has returned, once, and never after find_jobs ended in ERROR.
C18_TrendsOnlyAfterGoodJobSearch ==
  [][(flow' = "get_industry_trends" /\ flow # "get_industry_trends")
       => (flow = "find_jobs" /\ pc \in {"DONE", "EMPTY_RESULT"})]_vars

\* C19 (as claimed): when a remote call has failed, main() shows the hint chosen for
\* the description of the failure.
C19_HintShownOnRemoteFailure ==
  [][(InInvocation /\ pc = "ERROR" /\ (extractOutcome = "raised" \/ synthOutcome = "raised"))
       => \E i \in 1..Len(shown') : shown'[i] = HintFor(excDesc[1])]_vars

\* C13: with remote calls that return or raise, a running invocation reaches a terminal
\* state, and from a terminal state the only step is main() ending the run or entering
\* the next method: the finished invocation makes no further call.
C13_InvocationTerminates ==
  /\ (pc \in {"EXTRACT", "SYNTHESIZE"}) ~> (pc \in Terminal)
  /\ [][(InInvocation /\ pc \in Terminal)
          => \/ pc' = "idle"
             \/ /\ flow = "find_jobs"
                /\ flow' = "get_industry_trends"
                /\ pc' = "EXTRACT"
                /\ synthCalls' = 0]_vars

\* C13 witness: get_industry_trends has reached a terminal state after find_jobs did.
C13_Witness ==
  /\ flow = "get_industry_trends"
  /\ pc \in Terminal
  /\ "st.markdown:job_results" \in {shown[i] : i \in 1..Len(shown)}

\* C20: once an agent exists in the session it stays the first one constructed, and
\* every invocation's remote calls are made by that agent, whatever keys and model the
\* session holds by then.
C20_AgentConstructedOnce ==
  /\ session.job_agent = first_agent
  /\ InInvocation => (call_agent = first_agent /\ call_agent # NoAgent)

\* C20 witness: a remote call is pending on an agent whose key and model are no longer
\* the ones the session holds.
C20_Witness ==
  /\ pc = "EXTRACT"
  /\ call_agent # NoAgent
  /\ call_agent.firecrawl_api_key # session.firecrawl_key
  /\ call_agent.model_id # session.model_id

====
